---- MODULE Spec2Model ----
(***************************************************************************)
(* Model of streamlit_app.py: the sidebar filters over the loaded          *)
(* publication table, the KPI row, and the rule-based chat (route_query,   *)
(* _extract_top_n, _safe_series_counts, the chat-input handler and the     *)
(* st.session_state.messages log).                                         *)
(*                                                                         *)
(* Text is a sequence of one-character strings, so that substring tests,   *)
(* lower-casing, stripping, splitting and the regular expressions of the   *)
(* source are computed character by character.  A table cell is a record   *)
(* [na, s]: na = TRUE is a missing cell (NaN read by pandas.read_csv).     *)
(* Series.str.contains takes its pattern as a regular expression.          *)
(* Series.astype(str) depends on the pandas the app is installed with (the *)
(* repository pins none): up to pandas 2.x it turns a missing cell into the *)
(* text "nan", from pandas 3.0 on it keeps the cell missing.  Both are      *)
(* modelled; astype_keeps_na is fixed by the initial state.                *)
(***************************************************************************)
EXTENDS Integers, Sequences, FiniteSets, TLC

VARIABLES
    astype_keeps_na,  \* the installed pandas: does Series.astype(str) keep a missing cell
    df,               \* the loaded table (line 26)
    author_query,     \* sidebar text input (line 50)
    content_query,    \* sidebar text input (line 51)
    selected_fields,  \* sidebar multiselect (line 54)
    results,          \* row labels of df kept by the filters (lines 61-79)
    use_filtered,     \* checkbox (line 110)
    messages,         \* st.session_state.messages (line 114)
    pc,               \* position of the chat-input handler: "idle" | "routed"
    prompt,           \* st.chat_input value being handled (line 223)
    reply,            \* text returned by route_query (line 226)
    maybe_df,         \* table returned by route_query, or NoTable (line 226)
    nsub,             \* number of chat submissions started so far
    turn_sub,         \* history: for each turn of messages, the submission that appended it
    text,             \* argument of _extract_top_n (line 116)
    n                 \* value returned by _extract_top_n (lines 119, 121)

vars == <<astype_keeps_na, df, author_query, content_query, selected_fields, results, use_filtered,
          messages, pc, prompt, reply, maybe_df, nsub, turn_sub, text, n>>

-----------------------------------------------------------------------------
(* Text primitives *)

UPPER == <<"A","B","C","D","E","F","G","H","I","J","K","L","M",
           "N","O","P","Q","R","S","T","U","V","W","X","Y","Z">>

LOWER == <<"a","b","c","d","e","f","g","h","i","j","k","l","m",
           "n","o","p","q","r","s","t","u","v","w","x","y","z">>

DIGITS == <<"0","1","2","3","4","5","6","7","8","9">>

\* str.lower() on one character
LowerChar(c) ==
    IF \E i \in 1..26 : UPPER[i] = c
    THEN LOWER[CHOOSE i \in 1..26 : UPPER[i] = c]
    ELSE c

\* str.lower()
Lower(s) == [i \in 1..Len(s) |-> LowerChar(s[i])]

\* str.isspace() on one character; also the regex class \s
IsSpace(c) == c = " "

IsDigit(c) == \E i \in 1..10 : DIGITS[i] = c

\* the regex class \w
IsWord(c) == IsDigit(c) \/ c = "_" \/ (\E i \in 1..26 : LOWER[i] = c \/ UPPER[i] = c)

SetMin(S) == CHOOSE x \in S : \A y \in S : x <= y

SetMax(S) == CHOOSE x \in S : \A y \in S : x >= y

\* str.strip()
Strip(s) ==
    LET keep == {i \in 1..Len(s) : ~IsSpace(s[i])}
    IN  IF keep = {} THEN <<>> ELSE SubSeq(s, SetMin(keep), SetMax(keep))

\* Python's  sub in s
In(sub, s) ==
    \E i \in 0..(Len(s) - Len(sub)) : \A j \in 1..Len(sub) : s[i + j] = sub[j]

\* re.compile(pat, re.IGNORECASE).search(s) is not None, for patterns made of
\* letters, digits, spaces, hyphens, semicolons (all literal) and "." (any
\* character)
ReSearchIgnoreCase(pat, s) ==
    \E i \in 0..(Len(s) - Len(pat)) :
        \A j \in 1..Len(pat) :
            pat[j] = "." \/ LowerChar(s[i + j]) = LowerChar(pat[j])

-----------------------------------------------------------------------------
(* Cells, rows, tables *)

NaN == [na |-> TRUE, s |-> <<>>]

Txt(s) == [na |-> FALSE, s |-> s]

\* Series.astype(str) on one cell: a missing cell becomes the text "nan",
\* unless the installed pandas keeps it missing
AsTypeStr(cell) ==
    IF cell.na /\ ~astype_keeps_na THEN Txt(<<"n","a","n">>) ELSE cell

\* Series.str.contains(pat, case=False, na=False) on one cell
StrContains(cell, pat) == IF cell.na THEN FALSE ELSE ReSearchIgnoreCase(pat, cell.s)

COL_AUTHORS == "Authors"

COL_TITLE == "Title"

COL_ABS == "Abstract"

MESH_CANDIDATES == <<"MeSH terms", "MeSH_terms", "Mesh Terms", "Keywords", "Key Terms">>

None == "<None>"

SeqToSet(sq) == {sq[i] : i \in 1..Len(sq)}

\* next((c for c in MESH_CANDIDATES if c in df.columns), None)
mesh_col(d) ==
    LET hit == {i \in 1..Len(MESH_CANDIDATES) : MESH_CANDIDATES[i] \in SeqToSet(d.columns)}
    IN  IF hit = {} THEN None ELSE MESH_CANDIDATES[SetMin(hit)]

\* ["Title", "Abstract"] + (["MeSH terms"] if mesh_col else [])
field_options(d) ==
    {"Title", "Abstract"} \cup (IF mesh_col(d) # None THEN {"MeSH terms"} ELSE {})

AllRows(d) == [i \in 1..Len(d.rows) |-> i]

\* the author mask applied to the raw column whatever the query
AuthorFilter_unguarded(d, idx, aq) ==
    SelectSeq(idx, LAMBDA i : StrContains(d.rows[i][COL_AUTHORS], Strip(aq)))

\* lines 63-64: the author filter over the row labels idx
AuthorFilter(d, idx, aq) ==
    IF Strip(aq) # <<>>
    THEN SelectSeq(idx, LAMBDA i : StrContains(AsTypeStr(d.rows[i][COL_AUTHORS]), Strip(aq)))
    ELSE idx

\* lines 68-74: the column a selected field searches, None when it adds no mask
FieldColumn(d, field) ==
    IF field = "Title" THEN COL_TITLE
    ELSE IF field = "Abstract" THEN COL_ABS
    ELSE IF field = "MeSH terms" /\ mesh_col(d) # None THEN mesh_col(d)
    ELSE None

\* lines 66-79: the content filter over the row labels idx
ContentFilter(d, idx, cq, sel) ==
    LET cols == {FieldColumn(d, f) : f \in sel} \ {None}
    IN  IF Strip(cq) # <<>> /\ sel # {} /\ cols # {}
        THEN SelectSeq(idx, LAMBDA i :
                 \E c \in cols : StrContains(AsTypeStr(d.rows[i][c]), cq))
        ELSE idx

\* lines 61-79
ApplyFilters(d, aq, cq, sel) == ContentFilter(d, AuthorFilter(d, AllRows(d), aq), cq, sel)

\* lines 87-90: the projected, filtered table
ordered(d, res) ==
    LET mc == mesh_col(d)
        front_cols == <<COL_TITLE, COL_AUTHORS, COL_ABS>> \o (IF mc # None THEN <<mc>> ELSE <<>>)
        other_cols == SelectSeq(d.columns, LAMBDA c : c \notin SeqToSet(front_cols))
    IN  [columns |-> front_cols \o other_cols,
         rows    |-> [k \in 1..Len(res) |-> d.rows[res[k]]]]

\* lines 83-84: the two KPI metrics
TotalRows == Len(df.rows)

Matches == Len(results)

-----------------------------------------------------------------------------
(* The literal texts of route_query (lines 138-196) *)

s_clear == <<"c","l","e","a","r">>

s_clear_chat == <<"c","l","e","a","r"," ","c","h","a","t">>

s_reset == <<"r","e","s","e","t">>

s_help == <<"h","e","l","p">>

s_what_can_you_do == <<"w","h","a","t"," ","c","a","n"," ","y","o","u"," ","d","o">>

s_commands == <<"c","o","m","m","a","n","d","s">>

s_options == <<"o","p","t","i","o","n","s">>

s_how_many == <<"h","o","w"," ","m","a","n","y">>

s_row == <<"r","o","w">>

s_match == <<"m","a","t","c","h">>

s_column == <<"c","o","l","u","m","n">>

s_what == <<"w","h","a","t">>

s_list == <<"l","i","s","t">>

s_available == <<"a","v","a","i","l","a","b","l","e">>

s_summary == <<"s","u","m","m","a","r","y">>

s_top == <<"t","o","p">>

s_author == <<"a","u","t","h","o","r">>

s_institution == <<"i","n","s","t","i","t","u","t","i","o","n">>

s_affiliation == <<"a","f","f","i","l","i","a","t","i","o","n">>

s_organization == <<"o","r","g","a","n","i","z","a","t","i","o","n">>

s_title == <<"t","i","t","l","e">>

s_mentioning == <<"m","e","n","t","i","o","n","i","n","g">>

-----------------------------------------------------------------------------
(* _extract_top_n (lines 116-121) *)

DigitValue(c) == (CHOOSE i \in 1..10 : DIGITS[i] = c) - 1

\* int() of a run of digits
RECURSIVE ParseInt(_)
ParseInt(ds) ==
    IF ds = <<>> THEN 0
    ELSE 10 * ParseInt(SubSeq(ds, 1, Len(ds) - 1)) + DigitValue(ds[Len(ds)])

\* r"mentioning\s+([A-Za-z0-9\-\s]+)" : the class of the group
IsKwChar(c) == IsSpace(c) \/ c = "-" \/ (IsWord(c) /\ c # "_")

\* membership in the regex classes \s, \d and [A-Za-z0-9\-\s]
InClass(cls, c) ==
    CASE cls = "\\s" -> IsSpace(c)
      [] cls = "\\d" -> IsDigit(c)
      [] cls = "[A-Za-z0-9\\-\\s]" -> IsKwChar(c)

\* last index of the longest run of cls characters of s that starts at i
\* (i - 1 when s[i] is not in the class): what a greedy cls+ consumes
RunEnd(s, i, cls) ==
    LET stops == {k \in i..Len(s) : ~InClass(cls, s[k])}
    IN  IF stops = {} THEN Len(s) ELSE SetMin(stops) - 1

\* the regex assertion \b just before index i of s (i in 1..Len(s)+1)
WordBoundary(s, i) ==
    LET left  == i > 1 /\ IsWord(s[i - 1])
        right == i <= Len(s) /\ IsWord(s[i])
    IN  left # right

\* r"\btop\s+(\d+)\b" with re.IGNORECASE matches starting at index i
TopMatchAt(s, i) ==
    /\ i + 2 <= Len(s)
    /\ Lower(SubSeq(s, i, i + 2)) = s_top
    /\ WordBoundary(s, i)
    /\ LET ws == RunEnd(s, i + 3, "\\s")
       IN  /\ ws >= i + 3
           /\ LET de == RunEnd(s, ws + 1, "\\d")
              IN  de >= ws + 1 /\ WordBoundary(s, de + 1)

\* group(1) of that match
TopMatchGroup(s, i) ==
    LET ws == RunEnd(s, i + 3, "\\s")
    IN  SubSeq(s, ws + 1, RunEnd(s, ws + 1, "\\d"))

\* r"\b(\d+)\b" matches starting at index i
NumMatchAt(s, i) ==
    /\ IsDigit(s[i])
    /\ WordBoundary(s, i)
    /\ WordBoundary(s, RunEnd(s, i, "\\d") + 1)

Max2(a, b) == IF a >= b THEN a ELSE b

Min2(a, b) == IF a <= b THEN a ELSE b

DEFAULT_TOP_N == 10

\* the extracted number used as it is
_extract_top_n_nomax(txt, default) ==
    LET m  == {i \in 1..Len(txt) : TopMatchAt(txt, i)}
        m2 == {i \in 1..Len(txt) : NumMatchAt(txt, i)}
    IN  IF m # {} THEN ParseInt(TopMatchGroup(txt, SetMin(m)))
        ELSE IF m2 # {}
             THEN ParseInt(SubSeq(txt, SetMin(m2), RunEnd(txt, SetMin(m2), "\\d")))
             ELSE default

_extract_top_n(txt, default) ==
    LET m  == {i \in 1..Len(txt) : TopMatchAt(txt, i)}
        m2 == {i \in 1..Len(txt) : NumMatchAt(txt, i)}
    IN  IF m # {} THEN Max2(1, ParseInt(TopMatchGroup(txt, SetMin(m))))
        ELSE IF m2 # {}
             THEN Max2(1, ParseInt(SubSeq(txt, SetMin(m2), RunEnd(txt, SetMin(m2), "\\d"))))
             ELSE default

-----------------------------------------------------------------------------
(* _safe_series_counts (lines 123-128) *)

\* str.split(sep) for a one-character separator
RECURSIVE Split(_, _)
Split(s, sep) ==
    LET hits == {i \in 1..Len(s) : s[i] = sep}
    IN  IF hits = {} THEN <<s>>
        ELSE <<SubSeq(s, 1, SetMin(hits) - 1)>>
                 \o Split(SubSeq(s, SetMin(hits) + 1, Len(s)), sep)

\* Series.explode() of a series of lists
RECURSIVE Explode(_)
Explode(lists) ==
    IF lists = <<>> THEN <<>> ELSE Head(lists) \o Explode(Tail(lists))

\* Series.value_counts(): one row per distinct value, highest count first; the
\* order among equal counts is not fixed by the sort, so every such order is a
\* possible result
ValueCounts(s) ==
    LET vals     == SeqToSet(s)
        k        == Cardinality(vals)
        count(v) == Cardinality({i \in 1..Len(s) : s[i] = v})
        orders   == {p \in [1..k -> vals] :
                        /\ \A i, j \in 1..k : i # j => p[i] # p[j]
                        /\ \A i \in 1..(k - 1) : count(p[i]) >= count(p[i + 1])}
    IN  {[i \in 1..k |-> [value |-> p[i], count |-> count(p[i])]] : p \in orders}

\* the split taken at 30% already
_safe_series_counts_ge(series, split_semicolon) ==
    LET present == SelectSeq(series, LAMBDA cell : ~cell.na)
        s0      == [i \in 1..Len(present) |-> AsTypeStr(present[i]).s]
        semis   == Cardinality({i \in 1..Len(s0) : In(<<";">>, s0[i])})
        split   == split_semicolon /\ Len(s0) > 0 /\ 10 * semis >= 3 * Len(s0)
        s1      == IF split
                   THEN LET parts == Explode([i \in 1..Len(s0) |-> Split(s0[i], ";")])
                        IN  [i \in 1..Len(parts) |-> Strip(parts[i])]
                   ELSE s0
        s2      == SelectSeq(s1, LAMBDA tok : tok # <<>>)
    IN  ValueCounts(s2)

_safe_series_counts(series, split_semicolon) ==
    LET present == SelectSeq(series, LAMBDA cell : ~cell.na)         \* dropna()
        s0      == [i \in 1..Len(present) |-> AsTypeStr(present[i]).s]
        semis   == Cardinality({i \in 1..Len(s0) : In(<<";">>, s0[i])})
        \* mean() > 0.3, the mean of no values being NaN
        split   == split_semicolon /\ Len(s0) > 0 /\ 10 * semis > 3 * Len(s0)
        s1      == IF split
                   THEN LET parts == Explode([i \in 1..Len(s0) |-> Split(s0[i], ";")])
                        IN  [i \in 1..Len(parts) |-> Strip(parts[i])]
                   ELSE s0
        s2      == SelectSeq(s1, LAMBDA tok : tok # <<>>)
    IN  ValueCounts(s2)

-----------------------------------------------------------------------------
(* route_query (lines 130-212) *)

NoTable == [none |-> TRUE]

IsDataFrame(c) == "columns" \in DOMAIN c

\* DataFrame.head(k) on a sequence of rows
HeadRows(rows, k) == SubSeq(rows, 1, Min2(k, Len(rows)))

HEAD_TITLES == 200

EXAMPLE_COLUMNS == 10

\* str.lower() of the column names that occur in the modelled tables
LowerName(c) ==
    CASE c = "Authors"      -> "authors"
      [] c = "Title"        -> "title"
      [] c = "Abstract"     -> "abstract"
      [] c = "Keywords"     -> "keywords"
      [] c = "MeSH terms"   -> "mesh terms"
      [] c = "Affiliations" -> "affiliations"
      [] c = "Institution"  -> "institution"
      [] c = "Year"         -> "year"
      [] OTHER              -> c

INSTITUTION_NAMES ==
    {"institution", "institutions", "affiliation", "affiliations",
     "organization", "organizations"}

\* line 185: the first column whose lower-cased name is an institution alias
inst_col(data) ==
    LET hit == {i \in 1..Len(data.columns) : LowerName(data.columns[i]) \in INSTITUTION_NAMES}
    IN  IF hit = {} THEN None ELSE data.columns[SetMin(hit)]

Column(data, c) == [i \in 1..Len(data.rows) |-> data.rows[i][c]]

\* the span <<first, last>> of the group when the pattern matches starting at
\* index i, <<>> when it does not: \s+ is greedy and gives back its last space
\* when no group character follows it
MentioningGroupAt(s, i) ==
    IF ~(i + 9 <= Len(s) /\ SubSeq(s, i, i + 9) = s_mentioning) THEN <<>>
    ELSE LET ws == RunEnd(s, i + 10, "\\s")
         IN  IF ws < i + 10 THEN <<>>
             ELSE IF ws < Len(s) /\ IsKwChar(s[ws + 1])
                  THEN <<ws + 1, RunEnd(s, ws + 1, "[A-Za-z0-9\\-\\s]")>>
                  ELSE IF ws >= i + 11 THEN <<ws, ws>> ELSE <<>>

\* re.search: the starts of all matches; the leftmost is the one returned
MentioningMatches(s) == {i \in 1..Len(s) : MentioningGroupAt(s, i) # <<>>}

\* word_match.group(1)
MentioningGroup(s) ==
    LET span == MentioningGroupAt(s, SetMin(MentioningMatches(s)))
    IN  SubSeq(s, span[1], span[2])

Out(r, t, c) == [reply |-> r, table |-> t, cleared |-> c]

\* the reset branch without the reset of line 139
ClearOut_keeps == Out([fmt |-> "Chat cleared."], NoTable, FALSE)

\* lines 138-140: the reset branch; the third field says that
\* st.session_state.messages was set to [] (line 139)
ClearOut == Out([fmt |-> "Chat cleared."], NoTable, TRUE)

\* the if-chain with the Summary test moved in front of the Help test
route_rule_summary_first(q_lower) ==
    LET has(w) == In(w, q_lower)
    IN
    IF q_lower \in {s_clear, s_clear_chat, s_reset} THEN "Clear"
    ELSE IF has(s_summary) THEN "Summary"
    ELSE IF \E w \in {s_help, s_what_can_you_do, s_commands, s_options} : has(w) THEN "Help"
    ELSE IF has(s_how_many) /\ (has(s_row) \/ has(s_match)) THEN "RowCount"
    ELSE IF has(s_column) /\ (has(s_what) \/ has(s_list) \/ has(s_available)) THEN "ColumnList"
    ELSE IF has(s_top) /\ has(s_author) THEN "TopAuthors"
    ELSE IF has(s_top) /\ (\E w \in {s_institution, s_affiliation, s_organization} : has(w))
         THEN "TopInstitutions"
    ELSE IF has(s_list) /\ has(s_title) THEN "ListTitles"
    ELSE "Unrecognized"

\* lines 138-206: the if-chain of route_query, as the branch it takes for the
\* stripped lower-cased query
route_rule(q_lower) ==
    LET has(w) == In(w, q_lower)
    IN
    IF q_lower \in {s_clear, s_clear_chat, s_reset} THEN "Clear"
    ELSE IF \E w \in {s_help, s_what_can_you_do, s_commands, s_options} : has(w) THEN "Help"
    ELSE IF has(s_how_many) /\ (has(s_row) \/ has(s_match)) THEN "RowCount"
    ELSE IF has(s_column) /\ (has(s_what) \/ has(s_list) \/ has(s_available)) THEN "ColumnList"
    ELSE IF has(s_summary) THEN "Summary"
    ELSE IF has(s_top) /\ has(s_author) THEN "TopAuthors"
    ELSE IF has(s_top) /\ (\E w \in {s_institution, s_affiliation, s_organization} : has(w))
         THEN "TopInstitutions"
    ELSE IF has(s_list) /\ has(s_title) THEN "ListTitles"
    ELSE "Unrecognized"

\* lines 177-180 and 188-191: the first k rows of the counts as a two-column table
TopTable(counts, k, label) ==
    LET vc == HeadRows(counts, k)
    IN  [columns |-> <<label, "Count">>,
         rows    |-> [i \in 1..Len(vc) |-> (label :> Txt(vc[i].value)) @@ [Count |-> vc[i].count]]]

\* The possible results of route_query(q, data): the reply text, the optional
\* table, and whether st.session_state.messages was reset
route_query(q, data) ==
    LET q_lower == Strip(Lower(q))
        rule    == route_rule(q_lower)
    IN
    CASE rule = "Clear" -> {ClearOut}
      [] rule = "Help" -> {Out([fmt |-> "You can ask things like: ..."], NoTable, FALSE)}
      [] rule = "RowCount" ->
            {Out([fmt  |-> "There are **{len(data):,}** rows in the current scope.",
                  rows |-> Len(data.rows)], NoTable, FALSE)}
      [] rule = "ColumnList" ->
            {Out([fmt |-> "Available columns: {cols}", cols |-> data.columns], NoTable, FALSE)}
      [] rule = "Summary" ->
            {Out([fmt     |-> "- Rows: - Columns: - Example columns:",
                  rows    |-> Len(data.rows),
                  columns |-> Len(data.columns),
                  example |-> SubSeq(data.columns, 1,
                                     Min2(EXAMPLE_COLUMNS, Len(data.columns)))],
                 NoTable, FALSE)}
      [] rule = "TopAuthors" ->
            LET k == _extract_top_n(q_lower, DEFAULT_TOP_N)
            IN  IF COL_AUTHORS \in SeqToSet(data.columns)
                THEN {LET df_out == TopTable(counts, k, "Author")
                      IN  Out([fmt |-> "Top {len(df_out)} authors:",
                               len |-> Len(df_out.rows)], df_out, FALSE)
                      : counts \in _safe_series_counts(Column(data, COL_AUTHORS), TRUE)}
                ELSE {Out([fmt |-> "I couldn't find the Authors column."], NoTable, FALSE)}
      [] rule = "TopInstitutions" ->
            IF inst_col(data) # None
            THEN LET k == _extract_top_n(q_lower, DEFAULT_TOP_N)
                 IN  {LET df_out == TopTable(counts, k, "Institution")
                      IN  Out([fmt |-> "Top {len(df_out)} institutions:",
                               len |-> Len(df_out.rows)], df_out, FALSE)
                      : counts \in _safe_series_counts(Column(data, inst_col(data)), TRUE)}
            ELSE {Out([fmt |-> "I couldn't find an Institution/Affiliation column."],
                      NoTable, FALSE)}
      [] rule = "ListTitles" ->
            LET word_match == MentioningMatches(q_lower) # {}
                has_title  == COL_TITLE \in SeqToSet(data.columns)
                sub == IF word_match /\ has_title
                       THEN LET kw == Strip(MentioningGroup(q_lower))
                            IN  SelectSeq(data.rows, LAMBDA row :
                                    StrContains(AsTypeStr(row[COL_TITLE]), kw))
                       ELSE data.rows
            IN  IF has_title
                THEN LET kept   == HeadRows(sub, HEAD_TITLES)
                         df_out == [columns |-> <<COL_TITLE>>,
                                    rows |-> [i \in 1..Len(kept) |->
                                                 [Title |-> kept[i][COL_TITLE]]]]
                     IN  {Out([fmt |-> "Here are up to {len(df_out)} titles:",
                               len |-> Len(df_out.rows)], df_out, FALSE)}
                ELSE {Out([fmt |-> "I couldn't find the Title column."], NoTable, FALSE)}
      [] OTHER -> {Out([fmt |-> "Sorry, I didn't recognize that. ..."], NoTable, FALSE)}

-----------------------------------------------------------------------------
(* The script run: filters, checkbox, chat-input handler *)

\* line 225: scope = ordered if use_filtered else df
scope == IF use_filtered THEN ordered(df, results) ELSE df

NoPrompt == <<>>

NoReply == [fmt |-> "<unset>"]

UserTurn(p) == [role |-> "user", content |-> [str |-> p]]

AssistantTurn(c) == [role |-> "assistant", content |-> c]

\* the handler storing only the reply
AppendTurns_no_user(msgs, p, r, t) ==
    msgs \o <<AssistantTurn(r)>>
         \o (IF t # NoTable THEN <<AssistantTurn(t)>> ELSE <<>>)

\* the handler storing the table ahead of the text reply
AppendTurns_table_first(msgs, p, r, t) ==
    msgs \o <<UserTurn(p)>>
         \o (IF t # NoTable THEN <<AssistantTurn(t)>> ELSE <<>>)
         \o <<AssistantTurn(r)>>

\* lines 228-238: the turns the handler appends for one submission
AppendTurns(msgs, p, r, t) ==
    msgs \o <<UserTurn(p), AssistantTurn(r)>>
         \o (IF t # NoTable THEN <<AssistantTurn(t)>> ELSE <<>>)

\* A run of the script with no chat input: prompt is None, nothing is routed
NoChat ==
    /\ prompt' = NoPrompt
    /\ reply' = NoReply
    /\ maybe_df' = NoTable
    /\ UNCHANGED <<astype_keeps_na, df, messages, turn_sub, pc, nsub, text, n>>

\* the user edits "Authors contains" and the script reruns (lines 50, 61-79)
SetAuthorQuery(A) ==
    /\ pc = "idle"
    /\ \E v \in A :
          /\ v # author_query
          /\ author_query' = v
          /\ results' = ApplyFilters(df, v, content_query, selected_fields)
    /\ UNCHANGED <<content_query, selected_fields, use_filtered>>
    /\ NoChat

\* the user edits "Content keyword" and the script reruns (lines 51, 61-79)
SetContentQuery(Q) ==
    /\ pc = "idle"
    /\ \E v \in Q :
          /\ v # content_query
          /\ content_query' = v
          /\ results' = ApplyFilters(df, author_query, v, selected_fields)
    /\ UNCHANGED <<author_query, selected_fields, use_filtered>>
    /\ NoChat

\* the user changes "Search keyword in:" and the script reruns (lines 54-58, 61-79)
SetSelectedFields ==
    /\ pc = "idle"
    /\ \E v \in SUBSET field_options(df) :
          /\ v # selected_fields
          /\ selected_fields' = v
          /\ results' = ApplyFilters(df, author_query, content_query, v)
    /\ UNCHANGED <<author_query, content_query, use_filtered>>
    /\ NoChat

\* the user flips the checkbox and the script reruns (line 110)
ToggleUseFiltered ==
    /\ pc = "idle"
    /\ use_filtered' = ~use_filtered
    /\ UNCHANGED <<author_query, content_query, selected_fields, results>>
    /\ NoChat

\* lines 223-226: a prompt q of P is submitted and routed over the scope; the
\* reset of line 139 has taken effect when route_query returns
Route(P, limit) ==
    /\ pc = "idle"
    /\ nsub < limit
    /\ \E q \in P : \E r \in route_query(q, scope) :
          /\ prompt' = q
          /\ reply' = r.reply
          /\ maybe_df' = r.table
          /\ messages' = IF r.cleared THEN <<>> ELSE messages
          /\ turn_sub' = IF r.cleared THEN <<>> ELSE turn_sub
    /\ pc' = "routed"
    /\ nsub' = nsub + 1
    /\ UNCHANGED <<astype_keeps_na, df, author_query, content_query, selected_fields, results,
                   use_filtered, text, n>>

\* lines 228-238: the rest of the handler, which always follows the routing
AppendReply ==
    /\ pc = "routed"
    /\ messages' = AppendTurns(messages, prompt, reply, maybe_df)
    /\ turn_sub' = turn_sub \o [i \in 1..(Len(messages') - Len(messages)) |-> nsub]
    /\ pc' = "idle"
    /\ UNCHANGED <<astype_keeps_na, df, author_query, content_query, selected_fields, results,
                   use_filtered, prompt, reply, maybe_df, nsub, text, n>>

\* a call of _extract_top_n on the text drawn by the initial state
ExtractTopN ==
    /\ pc = "idle"
    /\ text # <<>>
    /\ n' = _extract_top_n(text, DEFAULT_TOP_N)
    /\ pc' = "returned"
    /\ UNCHANGED <<astype_keeps_na, df, author_query, content_query, selected_fields, results,
                   use_filtered, messages, turn_sub, prompt, reply, maybe_df, nsub, text>>

\* The state after the first run of the script over a table of T (the checks of
\* lines 25-41 passed): empty queries, every field selected, box ticked, no chat
InitOver(T) ==
    /\ astype_keeps_na \in BOOLEAN
    /\ df \in T
    /\ author_query = <<>>
    /\ content_query = <<>>
    /\ selected_fields = field_options(df)
    /\ results = ApplyFilters(df, <<>>, <<>>, field_options(df))
    /\ use_filtered = TRUE
    /\ messages = <<>>
    /\ turn_sub = <<>>
    /\ pc = "idle"
    /\ prompt = NoPrompt
    /\ reply = NoReply
    /\ maybe_df = NoTable
    /\ nsub = 0
    /\ n = 0

-----------------------------------------------------------------------------
(* Inputs: prompts *)

p_clear_chat == <<"c","l","e","a","r"," ","c","h","a","t">>

p_reset == <<" ","R","e","s","e","t"," ">>

p_clear_chat_help == <<"c","l","e","a","r"," ","c","h","a","t"," ","h","e","l","p">>

p_how_many_rows == <<"h","o","w"," ","m","a","n","y"," ","r","o","w","s">>

p_help_summary == <<"h","e","l","p"," ","s","u","m","m","a","r","y">>

p_matches_summary == <<"h","o","w"," ","m","a","n","y"," ","m","a","t","c","h","e","s"," ","i","n"," ","s","u","m","m","a","r","y">>

p_what_columns == <<"W","h","a","t"," ","c","o","l","u","m","n","s"," ","a","r","e"," ","a","v","a","i","l","a","b","l","e">>

p_columns_rows == <<"w","h","a","t"," ","c","o","l","u","m","n","s"," ","h","o","w"," ","m","a","n","y"," ","r","o","w","s">>

p_list_column_titles == <<"l","i","s","t"," ","c","o","l","u","m","n"," ","t","i","t","l","e","s">>

p_summary_top_authors == <<"s","u","m","m","a","r","y"," ","o","f"," ","t","o","p"," ","a","u","t","h","o","r","s">>

p_top_2_authors == <<"t","o","p"," ","2"," ","a","u","t","h","o","r","s">>

p_top_authors == <<"T","o","p"," ","a","u","t","h","o","r","s">>

p_top_author_institutions == <<"t","o","p"," ","a","u","t","h","o","r"," ","i","n","s","t","i","t","u","t","i","o","n","s">>

p_top_institutions_5 == <<"t","o","p"," ","i","n","s","t","i","t","u","t","i","o","n","s"," ","5">>

p_top_organization == <<"t","o","p"," ","1"," ","o","r","g","a","n","i","z","a","t","i","o","n">>

p_list_titles == <<"l","i","s","t"," ","t","i","t","l","e","s">>

p_list_titles_top_affiliation == <<"l","i","s","t"," ","t","i","t","l","e","s"," ","o","f"," ","t","o","p"," ","3"," ","a","f","f","i","l","i","a","t","i","o","n">>

p_list_titles_mentioning_a == <<"l","i","s","t"," ","t","i","t","l","e","s"," ","m","e","n","t","i","o","n","i","n","g"," ","a">>

p_xyzzy == <<"x","y","z","z","y"," ","n","o","n","s","e","n","s","e">>

p_top_3_authors == <<"t","o","p"," ","3"," ","a","u","t","h","o","r","s">>

p_top_1_authors == <<"t","o","p"," ","1"," ","a","u","t","h","o","r","s">>

p_top_0_authors == <<"t","o","p"," ","0"," ","a","u","t","h","o","r","s">>

p_top_authors_2 == <<"t","o","p"," ","a","u","t","h","o","r","s"," ","2">>

p_list_titles_mentioning == <<"l","i","s","t"," ","t","i","t","l","e","s"," ","m","e","n","t","i","o","n","i","n","g"," ">>

-----------------------------------------------------------------------------
(* Inputs: tables *)

Row(a, t, ab) == [Authors |-> a, Title |-> t, Abstract |-> ab]

\* three-column table with the given Authors cells
AuthorsTable(cells) ==
    [columns |-> <<"Title", "Authors", "Abstract">>,
     rows    |-> [i \in 1..Len(cells) |-> Row(cells[i], Txt(<<"t">>), NaN)]]

\* three-column table with the given Title cells
TitlesTable(cells) ==
    [columns |-> <<"Authors", "Title", "Abstract">>,
     rows    |-> [i \in 1..Len(cells) |-> Row(Txt(<<"A">>), cells[i], NaN)]]

c_AB == Txt(<<"A",";","B">>)

c_A == Txt(<<"A">>)

c_CB == Txt(<<"C",";","B">>)

\* a table with an institution-like column
TableAffil ==
    [columns |-> <<"Authors", "Title", "Abstract", "Affiliations">>,
     rows    |-> <<
        [Authors |-> c_AB, Title |-> Txt(<<"N","a","p">>), Abstract |-> Txt(<<"z">>),
         Affiliations |-> Txt(<<"U","1",";"," ","U","2">>)],
        [Authors |-> c_A, Title |-> NaN, Abstract |-> NaN,
         Affiliations |-> Txt(<<"U","2">>)],
        [Authors |-> c_CB, Title |-> Txt(<<"c","a","b">>), Abstract |-> Txt(<<"a">>),
         Affiliations |-> NaN] >>]

\* a table with neither an institution-like nor a keyword column
TablePlain ==
    [columns |-> <<"Title", "Authors", "Abstract">>,
     rows    |-> << Row(Txt(<<"C","o","l">>), Txt(<<"x","y">>), Txt(<<"b">>)),
                    Row(NaN, Txt(<<"t","a">>), Txt(<<"a","b">>)) >>]

\* tables for the sidebar filters: without a keyword column, with "Keywords",
\* and with both "Keywords" and "MeSH terms" (the earlier candidate is bound)
TableF1 ==
    [columns |-> <<"Title", "Authors", "Abstract">>,
     rows    |-> << Row(Txt(<<"S","o","h","n">>), Txt(<<"A","b"," ","c">>), Txt(<<"z","z">>)),
                    Row(NaN, Txt(<<"z","z">>), Txt(<<"x","a","b">>)),
                    Row(Txt(<<"B"," ","s","o">>), NaN, NaN) >>]

TableF2 ==
    [columns |-> <<"Authors", "Title", "Abstract", "Keywords">>,
     rows    |-> <<
        [Authors |-> Txt(<<"A","n">>), Title |-> Txt(<<"z","z">>), Abstract |-> Txt(<<"z","z">>), Keywords |-> Txt(<<"a","b">>)],
        [Authors |-> Txt(<<>>), Title |-> Txt(<<"a","b">>), Abstract |-> Txt(<<>>), Keywords |-> NaN] >>]

TableF3 ==
    [columns |-> <<"Authors", "Title", "Abstract", "Keywords", "MeSH terms">>,
     rows    |-> <<
        ("MeSH terms" :> Txt(<<"z","z">>)) @@
            [Authors |-> Txt(<<"s","o">>), Title |-> Txt(<<"q">>), Abstract |-> Txt(<<"q">>), Keywords |-> Txt(<<"a","b">>)],
        ("MeSH terms" :> Txt(<<"a"," ","b">>)) @@
            [Authors |-> NaN, Title |-> Txt(<<"q">>), Abstract |-> Txt(<<"q">>), Keywords |-> Txt(<<"z","z">>)] >>]

FilterTables == {TableF1, TableF2, TableF3}

AuthorQueries == {<<>>, <<" ">>, <<"s","o">>, <<" ","S","o"," ">>, <<"n","a","n">>, <<".">>}

ContentQueries == {<<>>, <<" ">>, <<"a","b">>, <<"A","B">>, <<"a","b"," ">>, <<"n","a","n">>, <<".">>}

\* Authors columns for the frequency counts
ColExample == <<c_AB, c_A, c_CB>>

\* exactly 30% of ten cells hold a semicolon
ColThirty == [i \in 1..10 |-> IF i <= 2 THEN c_AB ELSE IF i = 3 THEN c_CB ELSE c_A]

\* 40% of ten cells hold a semicolon
ColForty == [i \in 1..10 |-> IF i <= 3 THEN c_AB ELSE IF i = 4 THEN c_CB ELSE c_A]

\* one of three present cells holds a semicolon, one of six cells overall
ColMissing == <<NaN, NaN, NaN, c_AB, c_A, c_A>>

ColTrim == <<Txt(<<" ","A"," ",";"," ",";","B">>), Txt(<<"B",";">>)>>

ColPlain == <<Txt(<<>>), c_A, Txt(<<"A"," ">>), c_A, Txt(<<"x">>)>>

ColAllMissing == <<NaN, NaN>>

CountCells == {NaN, c_A, c_AB, Txt(<<"B",";"," ","A">>)}

MaxCells == 2

CountColumns ==
    {ColExample, ColThirty, ColForty, ColMissing, ColTrim, ColPlain, ColAllMissing}
        \cup UNION {[1..k -> CountCells] : k \in 1..MaxCells}

CountTables == {AuthorsTable(col) : col \in CountColumns}

CountPrompts ==
    {p_top_3_authors, p_top_1_authors, p_top_0_authors, p_top_authors, p_top_authors_2}

\* Title columns for the title listing
ExtraRows == 1

ColTitles == <<Txt(<<"C","a","b">>), NaN, Txt(<<"z","z">>), Txt(<<"a","-","b"," ","c">>)>>

\* more than HEAD_TITLES titles hold "ab"
ColManyTitles ==
    [i \in 1..(HEAD_TITLES + 2 + ExtraRows) |-> IF i \in {1, 100} THEN Txt(<<"z","z">>) ELSE Txt(<<"a","b">>)]

ListTables == {TitlesTable(ColTitles), TitlesTable(ColManyTitles), TitlesTable(<<NaN>>)}

ListKws == {<<"a">>, <<"a","b">>, <<"A","B">>, <<"b"," ","c">>, <<"n","a","n">>, <<"z","z">>, <<"h","e","l","p">>, <<"a","-","b">>}

ListPrompts == {p_list_titles_mentioning \o kw : kw \in ListKws}

\* Texts for _extract_top_n: words joined by one or by two spaces
Vocabulary == {<<"t","o","p">>, <<"T","o","p">>, <<"s","t","o","p">>, <<"a","u","t","h","o","r","s">>, <<"0">>, <<"5">>, <<"1","2">>, <<"5","x">>}

MaxTokens == 3

RECURSIVE Join(_, _)
Join(toks, sep) ==
    IF Len(toks) = 1 THEN toks[1] ELSE toks[1] \o sep \o Join(Tail(toks), sep)

TopTexts ==
    {Join(toks, sep) : toks \in UNION {[1..k -> Vocabulary] : k \in 1..MaxTokens},
                       sep \in {<<" ">>, <<" ", " ">>}}

ChatPrompts ==
    {p_clear_chat, p_reset, p_how_many_rows, p_top_2_authors,
     p_list_titles_mentioning_a, p_xyzzy}

ChatAuthorQueries == {<<>>, <<"c">>}

RoutePrompts ==
    {p_clear_chat, p_reset, p_clear_chat_help, p_how_many_rows, p_help_summary,
     p_matches_summary, p_what_columns, p_columns_rows, p_list_column_titles,
     p_summary_top_authors, p_top_2_authors, p_top_authors, p_top_author_institutions,
     p_top_institutions_5, p_top_organization, p_list_titles,
     p_list_titles_top_affiliation, p_list_titles_mentioning_a, p_xyzzy}

MaxSubmissions == 2

MaxRoutes == 1

-----------------------------------------------------------------------------
(* Specifications *)

\* the chat session over the running app
Init ==
    /\ InitOver({TableAffil, TablePlain})
    /\ text = <<>>

Next ==
    \/ Route(ChatPrompts, MaxSubmissions)
    \/ AppendReply
    \/ ToggleUseFiltered
    \/ SetAuthorQuery(ChatAuthorQueries)

Spec == Init /\ [][Next]_vars

\* one submission of each kind of prompt
InitRoute ==
    /\ InitOver({TableAffil, TablePlain})
    /\ text = <<>>

NextRoute ==
    \/ Route(RoutePrompts, MaxRoutes)
    \/ AppendReply
    \/ ToggleUseFiltered
    \/ SetAuthorQuery(ChatAuthorQueries)

SpecRoute == InitRoute /\ [][NextRoute]_vars

\* the sidebar filters
InitFilter ==
    /\ InitOver(FilterTables)
    /\ text = <<>>

NextFilter ==
    \/ SetAuthorQuery(AuthorQueries)
    \/ SetContentQuery(ContentQueries)
    \/ SetSelectedFields

SpecFilter == InitFilter /\ [][NextFilter]_vars

\* "top N authors" over varied Authors columns
InitCounts ==
    /\ InitOver(CountTables)
    /\ text = <<>>

NextCounts ==
    \/ Route(CountPrompts, MaxRoutes)
    \/ AppendReply

SpecCounts == InitCounts /\ [][NextCounts]_vars

\* "list titles mentioning kw" over varied Title columns
InitList ==
    /\ InitOver(ListTables)
    /\ text = <<>>

NextList ==
    \/ Route(ListPrompts, MaxRoutes)
    \/ AppendReply
    \/ ToggleUseFiltered

SpecList == InitList /\ [][NextList]_vars

\* _extract_top_n as a function of its text
InitTopN ==
    /\ InitOver({TablePlain})
    /\ text \in TopTexts

NextTopN == ExtractTopN

SpecTopN == InitTopN /\ [][NextTopN]_vars

-----------------------------------------------------------------------------
(* Properties *)

\* the case-insensitive substring test the properties speak of
ContainsCI(sub, cell) == ~cell.na /\ In(Lower(sub), Lower(cell.s))

\* the stripped lower-cased prompt
PromptKey == Strip(Lower(prompt))

\* ---- C1 ----------------------------------------------------------------
\* The rules in their order of precedence, each with its condition on the
\* stripped lower-cased query
INTENT_ORDER ==
    <<"Clear", "Help", "RowCount", "ColumnList", "Summary", "TopAuthors",
      "TopInstitutions", "ListTitles", "Unrecognized">>

RuleMatches(i, ql) ==
    CASE i = 1 -> ql = s_clear \/ ql = s_clear_chat \/ ql = s_reset
      [] i = 2 -> In(s_help, ql) \/ In(s_what_can_you_do, ql) \/ In(s_commands, ql)
                    \/ In(s_options, ql)
      [] i = 3 -> In(s_how_many, ql) /\ (In(s_row, ql) \/ In(s_match, ql))
      [] i = 4 -> In(s_column, ql) /\ (In(s_what, ql) \/ In(s_list, ql) \/ In(s_available, ql))
      [] i = 5 -> In(s_summary, ql)
      [] i = 6 -> In(s_top, ql) /\ In(s_author, ql)
      [] i = 7 -> In(s_top, ql) /\ (In(s_institution, ql) \/ In(s_affiliation, ql)
                                      \/ In(s_organization, ql))
      [] i = 8 -> In(s_list, ql) /\ In(s_title, ql)
      [] OTHER -> TRUE

\* the intent a reply text belongs to
ReplyIntent(fmt) ==
    CASE fmt = "Chat cleared." -> "Clear"
      [] fmt = "You can ask things like: ..." -> "Help"
      [] fmt = "There are **{len(data):,}** rows in the current scope." -> "RowCount"
      [] fmt = "Available columns: {cols}" -> "ColumnList"
      [] fmt = "- Rows: - Columns: - Example columns:" -> "Summary"
      [] fmt \in {"Top {len(df_out)} authors:", "I couldn't find the Authors column."}
            -> "TopAuthors"
      [] fmt \in {"Top {len(df_out)} institutions:",
                  "I couldn't find an Institution/Affiliation column."} -> "TopInstitutions"
      [] fmt \in {"Here are up to {len(df_out)} titles:", "I couldn't find the Title column."}
            -> "ListTitles"
      [] fmt = "Sorry, I didn't recognize that. ..." -> "Unrecognized"
      [] OTHER -> "<none>"

\* C1: whenever a prompt has been routed, the reply is the one of the first
\* rule, in the order Clear, Help, RowCount, ColumnList, Summary, TopAuthors,
\* TopInstitutions, ListTitles, Unrecognized, whose condition the prompt
\* satisfies; a prompt satisfying none of the eight conditions gets the fixed
\* fallback text and no table.
C1_FirstMatchingRuleWins ==
    pc = "routed" =>
        LET first == SetMin({i \in 1..9 : RuleMatches(i, PromptKey)})
        IN  /\ ReplyIntent(reply.fmt) = INTENT_ORDER[first]
            /\ first = 9 =>
                  /\ reply = [fmt |-> "Sorry, I didn't recognize that. ..."]
                  /\ maybe_df = NoTable

\* a prompt satisfying both the Help and the Summary condition got the Help reply
C1_Witness ==
    /\ pc = "routed"
    /\ prompt = p_help_summary
    /\ RuleMatches(2, PromptKey) /\ RuleMatches(5, PromptKey)
    /\ reply.fmt = "You can ask things like: ..."

\* ---- C2 ----------------------------------------------------------------
\* C2: with no author constraint, a non-empty field selection and a content
\* query that is not blank (a blank one imposes no constraint), a row is in the
\* filtered result if and only if one of the selected fields contains the
\* untrimmed content query as a case-insensitive substring.
C2_ContentFilterIsSubstringOr ==
    (Strip(author_query) = <<>> /\ selected_fields # {} /\ Strip(content_query) # <<>>) =>
        \A i \in 1..Len(df.rows) :
            (i \in SeqToSet(results)) <=>
                (\E f \in selected_fields :
                    ContainsCI(content_query, df.rows[i][FieldColumn(df, f)]))

\* ---- C3 ----------------------------------------------------------------
\* C3: under a non-empty author query every row of the filtered result has the
\* trimmed query as a case-insensitive substring of its Authors cell, so a row
\* whose Authors cell is missing is not in the result; under an empty author
\* query (and no content constraint) no row is excluded.
C3_AuthorFilterIsSubstring ==
    /\ Strip(author_query) # <<>> =>
          \A k \in 1..Len(results) :
              ContainsCI(Strip(author_query), df.rows[results[k]][COL_AUTHORS])
    /\ (Strip(author_query) = <<>> /\ Strip(content_query) = <<>>) =>
          results = AllRows(df)

\* ---- C4 ----------------------------------------------------------------
\* C4: when route_query has returned for a prompt whose stripped lower-cased
\* text is "clear", "clear chat" or "reset", the session log is empty, the reply
\* is exactly "Chat cleared." and there is no table.
C4_ClearEmptiesSessionOnReturn ==
    (pc = "routed" /\ PromptKey \in {s_clear, s_clear_chat, s_reset}) =>
        /\ messages = <<>>
        /\ reply = [fmt |-> "Chat cleared."]
        /\ maybe_df = NoTable

\* a reset routed as the second submission: the first one had left turns in the log
C4_Witness ==
    /\ pc = "routed"
    /\ prompt = p_reset
    /\ nsub = 2
    /\ messages = <<>>

\* ---- C5 ----------------------------------------------------------------
\* C5 as claimed: once a clear submission has been handled completely, the
\* session log holds no turns.
C5_LogEmptyAfterClearHandled ==
    (pc = "idle" /\ prompt # NoPrompt /\ PromptKey \in {s_clear, s_clear_chat, s_reset}) =>
        messages = <<>>

\* C5 amended: once a clear submission has been handled completely, the session
\* log holds exactly the two turns of that submission, the user turn with the
\* prompt and the assistant turn "Chat cleared.", and no earlier turn.
C5_LogHoldsOnlyClearExchange ==
    (pc = "idle" /\ prompt # NoPrompt /\ PromptKey \in {s_clear, s_clear_chat, s_reset}) =>
        messages = <<UserTurn(prompt), AssistantTurn([fmt |-> "Chat cleared."])>>

\* a clear handled completely as the second submission
C5_Witness ==
    /\ pc = "idle"
    /\ prompt = p_clear_chat
    /\ nsub = 2
    /\ Len(messages) = 2

\* ---- C6 ----------------------------------------------------------------
\* the keyword phrase of a prompt "list titles mentioning kw"
KwOfPrompt == SubSeq(prompt, Len(p_list_titles_mentioning) + 1, Len(prompt))

\* C6: for a prompt "list titles mentioning kw" that reaches the title-listing
\* rule, the table returned has the single column Title, holds only rows whose
\* Title contains kw case-insensitively, in scope order, and has at most 200
\* rows.
C6_ListedTitlesContainKeyword ==
    (pc = "routed" /\ route_rule(PromptKey) = "ListTitles") =>
        LET hits == SelectSeq(scope.rows, LAMBDA row : ContainsCI(KwOfPrompt, row[COL_TITLE]))
        IN  /\ maybe_df # NoTable
            /\ maybe_df.columns = <<"Title">>
            /\ Len(maybe_df.rows) <= 200
            /\ \A i \in 1..Len(maybe_df.rows) : ContainsCI(KwOfPrompt, maybe_df.rows[i].Title)
            /\ \A i \in 1..Len(maybe_df.rows) : maybe_df.rows[i].Title = hits[i][COL_TITLE]

\* ---- C7 ----------------------------------------------------------------
\* the N of the modelled "top authors" prompts
ExpectedN ==
    CASE prompt = p_top_3_authors -> 3
      [] prompt = p_top_1_authors -> 1
      [] prompt = p_top_0_authors -> 1
      [] prompt = p_top_authors_2 -> 2
      [] prompt = p_top_authors   -> 10
      [] OTHER -> 0

\* the Authors cells that are present
PresentAuthors ==
    LET col == Column(scope, COL_AUTHORS)
    IN  SelectSeq(col, LAMBDA cell : ~cell.na)

\* strictly more than 30% of the present cells hold a semicolon
MultiValued ==
    LET withSemi == {i \in 1..Len(PresentAuthors) : \E j \in 1..Len(PresentAuthors[i].s) :
                        PresentAuthors[i].s[j] = ";"}
    IN  10 * Cardinality(withSemi) > 3 * Len(PresentAuthors)

\* the trimmed semicolon-separated pieces of a cell when the column is
\* multi-valued, the whole cell otherwise
Pieces(cell) ==
    IF MultiValued
    THEN LET parts == Split(cell.s, ";") IN [j \in 1..Len(parts) |-> Strip(parts[j])]
    ELSE <<cell.s>>

\* the occurrences of a token over the present cells
Occurrences(tok) ==
    Cardinality({ij \in UNION {{<<i, j>> : j \in 1..Len(Pieces(PresentAuthors[i]))} :
                                  i \in 1..Len(PresentAuthors)} :
                    Pieces(PresentAuthors[ij[1]])[ij[2]] = tok})

AllTokens ==
    UNION {SeqToSet(Pieces(PresentAuthors[i])) : i \in 1..Len(PresentAuthors)} \ {<<>>}

\* C7: the table of a "top N authors" reply has at most N rows (all tokens when
\* there are fewer), one row per token with its number of occurrences, in order
\* of non-increasing count, and no token left out has more occurrences than one
\* listed; tokens are counted over the present cells, split on semicolons and
\* trimmed when strictly more than 30% of those cells hold a semicolon, whole
\* cells otherwise, empty tokens dropped.  For the cells "A;B", "A", "C;B" the
\* counts are A = 2, B = 2, C = 1.
C7_TopAuthorsCounts ==
    pc = "routed" =>
        LET rows == maybe_df.rows
        IN  /\ Len(rows) = Min2(ExpectedN, Cardinality(AllTokens))
            /\ \A i \in 1..Len(rows) :
                  /\ ~rows[i].Author.na
                  /\ rows[i].Author.s \in AllTokens
                  /\ rows[i].Count = Occurrences(rows[i].Author.s)
            /\ \A i, j \in 1..Len(rows) : i < j =>
                  /\ rows[i].Count >= rows[j].Count
                  /\ rows[i].Author # rows[j].Author
            /\ \A tok \in AllTokens :
                  (\A i \in 1..Len(rows) : rows[i].Author.s # tok) =>
                      \A i \in 1..Len(rows) : rows[i].Count >= Occurrences(tok)
            /\ (Column(df, COL_AUTHORS) = ColExample /\ ExpectedN >= 3) =>
                  {<<rows[i].Author.s, rows[i].Count>> : i \in 1..Len(rows)}
                      = {<< <<"A">>, 2 >>, << <<"B">>, 2 >>, << <<"C">>, 1 >>}

\* "top 3 authors" routed over the cells "A;B", "A", "C;B"
C7_Witness ==
    /\ pc = "routed"
    /\ prompt = p_top_3_authors
    /\ Column(df, COL_AUTHORS) = ColExample
    /\ Len(maybe_df.rows) = 3
    /\ maybe_df.rows[3].Count = 1

\* ---- C8 ----------------------------------------------------------------
\* C8: the Matches KPI is at most the Total rows KPI, and equals it when the
\* author query and the content query are both empty.
C8_MatchesAtMostTotal ==
    /\ Matches <= TotalRows
    /\ (author_query = <<>> /\ content_query = <<>>) => Matches = TotalRows

\* both filters applied and some, not all, rows kept
C8_Witness ==
    /\ author_query # <<>>
    /\ content_query # <<>>
    /\ selected_fields # {}
    /\ 0 < Matches
    /\ Matches < TotalRows

\* ---- C9 ----------------------------------------------------------------
\* the words of a text: its maximal runs of non-space characters
Words(txt) == SelectSeq(Split(txt, " "), LAMBDA w : w # <<>>)

AllDigits(w) == w # <<>> /\ \A i \in 1..Len(w) : IsDigit(w[i])

\* the decimal value of a word of digits
RECURSIVE Decimal(_)
Decimal(w) ==
    IF w = <<>> THEN 0
    ELSE Decimal(SubSeq(w, 1, Len(w) - 1)) * 10 + DigitValue(w[Len(w)])

\* N as stated: the number after the first "top" directly followed by a number,
\* else the first number, else 10; a number found is raised to at least 1
StatedTopN(ws) ==
    LET tops == {i \in 1..(Len(ws) - 1) : Lower(ws[i]) = s_top /\ AllDigits(ws[i + 1])}
        nums == {i \in 1..Len(ws) : AllDigits(ws[i])}
    IN  IF tops # {} THEN Max2(1, Decimal(ws[SetMin(tops) + 1]))
        ELSE IF nums # {} THEN Max2(1, Decimal(ws[SetMin(nums)]))
        ELSE 10

\* C9: for a text of space-separated words, _extract_top_n returns the number
\* following "top" (any letter case) when a number follows it, otherwise the
\* first standalone number of the text, otherwise 10, a found number being
\* raised to at least 1; so the result is never below 1: "top 0 authors" gives
\* 1, "top authors 5" gives 5 and "top authors" gives 10.
C9_ExtractTopN ==
    pc = "returned" =>
        /\ n = StatedTopN(Words(text))
        /\ n >= 1
        /\ text = <<"t","o","p"," ","0"," ","a","u","t","h","o","r","s">> => n = 1
        /\ text = <<"t","o","p"," ","a","u","t","h","o","r","s"," ","5">> => n = 5
        /\ text = <<"t","o","p"," ","a","u","t","h","o","r","s">> => n = 10

\* "top 0 authors" was raised to 1
C9_Witness ==
    /\ pc = "returned"
    /\ text = <<"t","o","p"," ","0"," ","a","u","t","h","o","r","s">>
    /\ n = 1

\* ---- C10 ---------------------------------------------------------------
IsUserText(m) == m.role = "user" /\ ~IsDataFrame(m.content)

IsAssistantText(m) == m.role = "assistant" /\ ~IsDataFrame(m.content)

IsAssistantTable(m) == m.role = "assistant" /\ IsDataFrame(m.content)

\* C10: the session log is in submission order and is made of one block per
\* submission: a user turn, then an assistant text turn, then, only when the
\* reply came with a table, an assistant turn holding that table; so a table
\* turn always directly follows the text reply of its own submission, which
\* directly follows that submission's user turn, and a submission without a
\* table has appended exactly a user turn and one assistant text turn.
C10_TurnBlocks ==
    /\ Len(turn_sub) = Len(messages)
    /\ \A i, j \in 1..Len(messages) : i < j => turn_sub[i] <= turn_sub[j]
    /\ \A i \in 1..Len(messages) :
          LET block == {j \in 1..Len(messages) : turn_sub[j] = turn_sub[i]}
              first == SetMin(block)
              last  == SetMax(block)
          IN  /\ last - first \in {1, 2}
              /\ IsUserText(messages[first])
              /\ IsAssistantText(messages[first + 1])
              /\ last = first + 2 => IsAssistantTable(messages[last])
              /\ IsDataFrame(messages[i].content) => i = first + 2
    /\ (pc = "idle" /\ prompt # NoPrompt) =>
          LET mine == {j \in 1..Len(messages) : turn_sub[j] = nsub}
          IN  /\ mine # {}
              /\ SetMax(mine) = Len(messages)
              /\ messages[SetMin(mine)] = UserTurn(prompt)
              /\ messages[SetMin(mine) + 1] = AssistantTurn(reply)
              /\ maybe_df = NoTable => Cardinality(mine) = 2
              /\ maybe_df # NoTable =>
                    Cardinality(mine) = 3 /\ messages[Len(messages)] = AssistantTurn(maybe_df)

\* a log holding a block without a table followed by a block with one
C10_Witness ==
    /\ pc = "idle"
    /\ Len(messages) = 5
    /\ IsAssistantText(messages[2])
    /\ IsUserText(messages[3])
    /\ IsAssistantTable(messages[5])

====
